---- MODULE Spec2Model ----
(***************************************************************************)
(* The task store of src/todo.js (server.js, "Task Management API"): the   *)
(* in-memory collection `tasks` and the three routes that read or change   *)
(* it, GET /api/tasks, POST /api/tasks and PATCH /api/tasks/:id/assign.    *)
(*                                                                         *)
(* JavaScript strings are TLA+ strings.  A JSON value that may be          *)
(* something other than a string (a body or query field) is a record       *)
(* [k, s, n]: its kind, its characters when a string, its number when a    *)
(* number.  The clock `now` is counted in milliseconds after the epoch     *)
(* time 1700000000000, so Date.now() is 1700000000000 + now.               *)
(***************************************************************************)
EXTENDS Integers, Sequences, FiniteSets, TLC

VARIABLES tasks, now, req, res

vars == <<tasks, now, req, res>>

-----------------------------------------------------------------------------
(* Bounds of the model *)

\* the clock reading, in ms after 1700000000000, when the server starts
StartOffset == 999
\* how many milliseconds the clock advances in a run
MaxTicks == 1
\* the largest collection explored (the two seeded tasks included)
MaxTasks == 4

-----------------------------------------------------------------------------
(* JSON values *)

Undefined == [k |-> "undefined", s |-> "", n |-> 0]
Null == [k |-> "null", s |-> "", n |-> 0]
Str(s) == [k |-> "string", s |-> s, n |-> 0]
Num(n) == [k |-> "number", s |-> "", n |-> n]

\* JavaScript truthiness: undefined, null, "" and 0 are falsy
Truthy(v) ==
  CASE v.k = "undefined" -> FALSE
    [] v.k = "null" -> FALSE
    [] v.k = "string" -> v.s # ""
    [] v.k = "number" -> v.n # 0

\* String.prototype.startsWith
StartsWith(s, p) == Len(s) >= Len(p) /\ SubSeq(s, 1, Len(p)) = p

-----------------------------------------------------------------------------
(* The clock: Date.now() and Date.prototype.toISOString *)

Digits == "0123456789"
DigitChar(d) == SubSeq(Digits, d + 1, d + 1)
DigitVal(c) == CHOOSE d \in 0..9 : DigitChar(d) = c

RECURSIVE Pad(_, _)
\* n in decimal, in exactly w digits
Pad(n, w) == IF w = 0 THEN "" ELSE Pad(n \div 10, w - 1) \o DigitChar(n % 10)

RECURSIVE Decimal(_)
\* n >= 0 in decimal, as String(n) writes it
Decimal(n) == IF n < 10 THEN DigitChar(n) ELSE Decimal(n \div 10) \o DigitChar(n % 10)

\* String(Date.now()) at t ms after 1700000000000 (t < 1000000)
DateNow(t) == "1700000" \o Pad(t, 6)

\* new Date().toISOString() at t ms after 1700000000000, which is
\* 2023-11-14T22:13:20.000Z (t < 40000, so the minute does not change)
toISOString(t) ==
  "2023-11-14T22:13:" \o Pad(20 + t \div 1000, 2) \o "." \o Pad(t % 1000, 3) \o "Z"

-----------------------------------------------------------------------------
(* The collection *)

\* let tasks = [...]: the seeded collection; the seeds carry no timestamps
SeedTasks ==
  << [id |-> "tsk-1", title |-> "Refactor auth module", status |-> "in-progress",
      assignee |-> Str("dev-1"), createdAt |-> Undefined, updatedAt |-> Undefined],
     [id |-> "tsk-2", title |-> "Write API documentation", status |-> "todo",
      assignee |-> Null, createdAt |-> Undefined, updatedAt |-> Undefined] >>

\* findTask: the position of the first task with this id, 0 when there is none
findTask(ts, id) ==
  IF \E i \in DOMAIN ts : ts[i].id = id
  THEN CHOOSE i \in DOMAIN ts : ts[i].id = id /\ \A j \in 1..(i - 1) : ts[j].id # id
  ELSE 0

\* validateAssignee without the prefix test: any truthy value passes
validateAssigneeTruthy(a) == IF Truthy(a) THEN "truthy" ELSE "falsy"

\* validateAssignee: assignee && assignee.startsWith('dev-').  "throw" is the
\* TypeError of calling startsWith on a truthy value that is not a string.
validateAssignee(a) ==
  IF ~Truthy(a) THEN "falsy"
  ELSE IF a.k # "string" THEN "throw"
  ELSE IF StartsWith(a.s, "dev-") THEN "truthy" ELSE "falsy"

-----------------------------------------------------------------------------
(* express-validator, as validateTaskInput uses it *)

MinTitleLen == 5
StatusValues == {"todo", "in-progress", "done"}

\* the string a validator or sanitizer sees for a field: '' for a missing one
toString(v) ==
  CASE v.k = "string" -> v.s
    [] v.k = "number" -> IF v.n < 0 THEN "-" \o Decimal(-v.n) ELSE Decimal(v.n)
    [] OTHER -> ""

IsSpace(c) == c \in {" ", "\t", "\n"}

RECURSIVE TrimLeft(_)
TrimLeft(s) ==
  IF s # "" /\ IsSpace(SubSeq(s, 1, 1)) THEN TrimLeft(SubSeq(s, 2, Len(s))) ELSE s

RECURSIVE TrimRight(_)
TrimRight(s) ==
  IF s # "" /\ IsSpace(SubSeq(s, Len(s), Len(s)))
  THEN TrimRight(SubSeq(s, 1, Len(s) - 1)) ELSE s

\* .trim()
trim(s) == TrimRight(TrimLeft(s))

\* .isLength({ min })
isLength(s, min) == Len(s) >= min

\* .isIn(values)
isIn(s, values) == s \in values

\* body('title').trim().isLength({ min: 5 }): the sanitized title and its errors
TitleChain(body) ==
  LET t == trim(toString(body.title)) IN
  [value |-> Str(t),
   errors |-> IF isLength(t, MinTitleLen) THEN <<>>
              ELSE << [param |-> "title", msg |-> "Title must be at least 5 characters"] >>]

\* body('status').isIn(['todo', 'in-progress', 'done']): the chain is not
\* optional(), so a missing status is validated as ''
StatusChain(body) ==
  IF isIn(toString(body.status), StatusValues) THEN <<>>
  ELSE << [param |-> "status", msg |-> "Invalid status"] >>

\* validateTaskInput: both chains run, then validationResult(req) collects
validateTaskInput(body) ==
  [body |-> [title |-> TitleChain(body).value, status |-> body.status],
   errors |-> TitleChain(body).errors \o StatusChain(body)]

-----------------------------------------------------------------------------
(* The route handlers: each gives the response and the collection afterwards *)

NoRequest == [op |-> "none", title |-> Undefined, status |-> Undefined,
              id |-> "", assignee |-> Undefined]
NoResponse == [code |-> 0, errors |-> <<>>, error |-> "", body |-> <<>>]

\* res.status(code).json({ error })
ErrorResponse(code, message) ==
  [code |-> code, errors |-> <<>>, error |-> message, body |-> <<>>]

\* GET /api/tasks ignoring the status filter
GetTasksUnfiltered(ts, status) ==
  [tasks |-> ts, res |-> [code |-> 200, errors |-> <<>>, error |-> "", body |-> ts]]

\* app.get('/api/tasks'): status ? tasks.filter(...) : [...tasks]
GetTasks(ts, status) ==
  [tasks |-> ts,
   res |-> [code |-> 200, errors |-> <<>>, error |-> "",
            body |-> IF Truthy(status)
                     THEN SelectSeq(ts, LAMBDA task : Str(task.status) = status)
                     ELSE ts]]

\* app.post('/api/tasks', validateTaskInput, ...): t1 is the clock at
\* Date.now(), t2 the clock at new Date()
PostTask(ts, body, t1, t2) ==
  LET v == validateTaskInput(body) IN
  IF v.errors # <<>>
  THEN [tasks |-> ts,
        res |-> [code |-> 400, errors |-> v.errors, error |-> "", body |-> <<>>]]
  ELSE LET newTask ==
             [id |-> "tsk-" \o DateNow(t1),
              title |-> v.body.title.s,
              status |-> IF v.body.status.k = "undefined" THEN "todo"
                         ELSE v.body.status.s,
              assignee |-> Null,
              createdAt |-> Str(toISOString(t2)),
              updatedAt |-> Undefined]
       IN [tasks |-> Append(ts, newTask),
           res |-> [code |-> 201, errors |-> <<>>, error |-> "", body |-> <<newTask>>]]

\* PATCH assign that stores the assignee before it validates it
PatchAssignEager(ts, taskId, assignee, t) ==
  LET valid == validateAssignee(assignee)
      i == findTask(ts, taskId)
      stored == IF i = 0 THEN ts
                ELSE [ts EXCEPT ![i].assignee = assignee,
                                ![i].updatedAt = Str(toISOString(t))]
  IN
  IF valid = "throw" THEN [tasks |-> ts, res |-> ErrorResponse(500, "Assignment failed")]
  ELSE IF valid = "falsy"
  THEN [tasks |-> stored, res |-> ErrorResponse(400, "Invalid assignee format")]
  ELSE IF i = 0 THEN [tasks |-> ts, res |-> ErrorResponse(404, "Task not found")]
  ELSE [tasks |-> stored,
        res |-> [code |-> 200, errors |-> <<>>, error |-> "", body |-> <<stored[i]>>]]

\* PATCH assign that updates every task with the id, not the first one found
PatchAssignAll(ts, taskId, assignee, t) ==
  LET valid == validateAssignee(assignee)
      i == findTask(ts, taskId)
      stored == [j \in DOMAIN ts |->
                  IF ts[j].id = taskId
                  THEN [ts[j] EXCEPT !.assignee = assignee,
                                     !.updatedAt = Str(toISOString(t))]
                  ELSE ts[j]]
  IN
  IF valid = "throw" THEN [tasks |-> ts, res |-> ErrorResponse(500, "Assignment failed")]
  ELSE IF valid = "falsy"
  THEN [tasks |-> ts, res |-> ErrorResponse(400, "Invalid assignee format")]
  ELSE IF i = 0 THEN [tasks |-> ts, res |-> ErrorResponse(404, "Task not found")]
  ELSE [tasks |-> stored,
        res |-> [code |-> 200, errors |-> <<>>, error |-> "", body |-> <<stored[i]>>]]

\* app.patch('/api/tasks/:id/assign'): t is the clock at new Date()
PatchAssign(ts, taskId, assignee, t) ==
  LET valid == validateAssignee(assignee)
      i == findTask(ts, taskId)
  IN
  IF valid = "throw" THEN [tasks |-> ts, res |-> ErrorResponse(500, "Assignment failed")]
  ELSE IF valid = "falsy"
  THEN [tasks |-> ts, res |-> ErrorResponse(400, "Invalid assignee format")]
  ELSE IF i = 0 THEN [tasks |-> ts, res |-> ErrorResponse(404, "Task not found")]
  ELSE LET task == [ts[i] EXCEPT !.assignee = assignee,
                                 !.updatedAt = Str(toISOString(t))]
       IN [tasks |-> [ts EXCEPT ![i] = task],
           res |-> [code |-> 200, errors |-> <<>>, error |-> "", body |-> <<task>>]]

-----------------------------------------------------------------------------
(* The requests a run draws from *)

\* req.body.title: missing, too short once trimmed, exactly long enough once trimmed
Titles == {Undefined, Str("ok"), Str("  ok   "), Str(" Tasks ")}
\* req.body.status: missing, two of the accepted values, a rejected one
BodyStatuses == {Undefined, Str("todo"), Str("in-progress"), Str("bogus")}
\* req.query.status: no parameter, ?status= and four values
QueryStatuses == {Undefined, Str(""), Str("todo"), Str("in-progress"), Str("bogus")}
\* req.body.assignee: missing, empty, without the prefix, with it, not a string
Assignees == {Undefined, Str(""), Str("not-a-dev"), Str("dev-9"), Num(123)}
Clock == StartOffset..(StartOffset + MaxTicks)
\* req.params.id: a seeded id, an id no task has, and the ids create can allocate
TaskIds == {"tsk-1", "missing-id"} \cup {"tsk-" \o DateNow(t) : t \in Clock}

-----------------------------------------------------------------------------
(* The state machine *)

Init ==
  /\ tasks = SeedTasks
  /\ now = StartOffset
  /\ req = NoRequest
  /\ res = NoResponse

\* a millisecond passes between two requests
Tick ==
  /\ now < StartOffset + MaxTicks
  /\ now' = now + 1
  /\ UNCHANGED <<tasks, req, res>>

ListTasks(status) ==
  LET r == GetTasks(tasks, status) IN
  /\ req' = [NoRequest EXCEPT !.op = "list", !.status = status]
  /\ res' = r.res
  /\ tasks' = r.tasks
  /\ UNCHANGED now

\* Date.now() and new Date() are read in the same run of the handler
CreateTask(title, status) ==
  LET r == PostTask(tasks, [title |-> title, status |-> status], now, now) IN
  /\ Len(r.tasks) <= MaxTasks
  /\ req' = [NoRequest EXCEPT !.op = "create", !.title = title, !.status = status]
  /\ res' = r.res
  /\ tasks' = r.tasks
  /\ UNCHANGED now

AssignTask(id, assignee) ==
  LET r == PatchAssign(tasks, id, assignee, now) IN
  /\ req' = [NoRequest EXCEPT !.op = "assign", !.id = id, !.assignee = assignee]
  /\ res' = r.res
  /\ tasks' = r.tasks
  /\ UNCHANGED now

Next ==
  \/ Tick
  \/ \E status \in QueryStatuses : ListTasks(status)
  \/ \E title \in Titles, status \in BodyStatuses : CreateTask(title, status)
  \/ \E id \in TaskIds, assignee \in Assignees : AssignTask(id, assignee)

Spec == Init /\ [][Next]_vars

-----------------------------------------------------------------------------
(* Vocabulary of the properties *)

\* the fields of the validation errors a response lists
ErrorParams(r) == {r.errors[i].param : i \in DOMAIN r.errors}

\* the title constraint of create: at least MinTitleLen characters once trimmed
TitleViolated(title) == ~(title.k = "string" /\ Len(trim(title.s)) >= MinTitleLen)

\* the status constraint of create: a status, when supplied, is an enumerated one
StatusViolated(status) == status # Undefined /\ ~(status.k = "string" /\ status.s \in StatusValues)

\* the assignee constraint of assign: a non-empty string starting with dev-
AssigneeAccepted(a) == a.k = "string" /\ a.s # "" /\ SubSeq(a.s, 1, 4) = "dev-"

\* the clock reading an ISO string was written at (the inverse of toISOString)
ParseISO(z) ==
  (DigitVal(SubSeq(z, 18, 18)) * 10 + DigitVal(SubSeq(z, 19, 19)) - 20) * 1000
  + DigitVal(SubSeq(z, 21, 21)) * 100 + DigitVal(SubSeq(z, 22, 22)) * 10
  + DigitVal(SubSeq(z, 23, 23))

\* timestamp u is strictly later than timestamp c; false when either is absent
IsLater(u, c) == u.k = "string" /\ c.k = "string" /\ ParseISO(u.s) > ParseISO(c.s)

RECURSIVE Matching(_, _)
\* the tasks of ts whose status is s, in the order of ts
Matching(ts, s) ==
  IF ts = <<>> THEN <<>>
  ELSE (IF Head(ts).status = s THEN <<Head(ts)>> ELSE <<>>) \o Matching(Tail(ts), s)

-----------------------------------------------------------------------------
(* C1 *)

\* C1: no two tasks of the collection have the same id.
UniqueIds ==
  \A i, j \in DOMAIN tasks : i # j => tasks[i].id # tasks[j].id

(* C2 *)

\* C2: a create with a title of at least 5 characters after trimming and no
\* status answers 201, and the task it appended has status todo.
CreateDefaultsToTodo ==
  (req.op = "create" /\ req.status = Undefined /\ ~TitleViolated(req.title))
    => /\ res.code = 201
       /\ tasks # <<>>
       /\ tasks[Len(tasks)].status = "todo"
       /\ res.body = <<tasks[Len(tasks)]>>

(* C3 *)

\* C3: a step whose response is a validation error (400), a not-found error
\* (404) or a fault (500) leaves the collection as it was.
FailedLeavesUnchanged ==
  [][res'.code \in {400, 404, 500} => tasks' = tasks]_vars

\* an assign with a rejected assignee was refused for a task that exists and
\* has an assignee, and a create was refused before it
FailedAssignReached ==
  /\ req.op = "assign"
  /\ req.assignee = Str("not-a-dev")
  /\ res.code = 400
  /\ \E i \in DOMAIN tasks : tasks[i].id = req.id /\ tasks[i].assignee = Str("dev-9")

(* C4 *)

\* C4: a successful assign returns the task with the given assignee and an
\* updatedAt strictly later than its createdAt.
AssignUpdatedAfterCreated ==
  (req.op = "assign" /\ res.code = 200)
    => /\ Len(res.body) = 1
       /\ res.body[1].id = req.id
       /\ res.body[1].assignee = req.assignee
       /\ IsLater(res.body[1].updatedAt, res.body[1].createdAt)

(* C5 *)

\* C5: assign answers 400 when the assignee is missing, empty or does not
\* start with dev-, whether or not the id exists; 404 when the assignee is
\* accepted and no task has the id; neither when the assignee is accepted and
\* a task has the id.
AssignFailureClasses ==
  req.op = "assign" =>
    LET exists == \E i \in DOMAIN tasks : tasks[i].id = req.id IN
    /\ ~AssigneeAccepted(req.assignee) => res.code = 400
    /\ (AssigneeAccepted(req.assignee) /\ ~exists) => res.code = 404
    /\ (AssigneeAccepted(req.assignee) /\ exists) => res.code \notin {400, 404}

(* C6 *)

\* C6: create answers with a validation error exactly when a field constraint
\* is violated, and the error lists title exactly when the title constraint is
\* violated and status exactly when the status constraint is.
CreateListsEveryViolation ==
  req.op = "create" =>
    /\ res.code = 400 <=> (TitleViolated(req.title) \/ StatusViolated(req.status))
    /\ res.code = 400 =>
         /\ "title" \in ErrorParams(res) <=> TitleViolated(req.title)
         /\ "status" \in ErrorParams(res) <=> StatusViolated(req.status)

(* C7 *)

\* C7: list(status) returns exactly the tasks whose status equals the given
\* value, list() returns every task, both in insertion order, and the call
\* leaves the collection as it was.
ListReturnsMatching ==
  [][req'.op = "list" =>
       /\ tasks' = tasks
       /\ res'.code = 200
       /\ res'.body = IF req'.status = Undefined THEN tasks
                      ELSE Matching(tasks, req'.status.s)]_vars

\* C7, amended: as above for a non-empty status; list() and a list with the
\* empty status both return every task.
ListReturnsMatchingOrAll ==
  [][req'.op = "list" =>
       /\ tasks' = tasks
       /\ res'.code = 200
       /\ res'.body = IF req'.status \in {Undefined, Str("")} THEN tasks
                      ELSE Matching(tasks, req'.status.s)]_vars

\* list("todo") returned a seeded and a created task and left others out
FilteredListReached ==
  /\ req.op = "list"
  /\ req.status = Str("todo")
  /\ Len(res.body) >= 2
  /\ Len(res.body) < Len(tasks)
  /\ \E i \in DOMAIN res.body : res.body[i].createdAt # Undefined

(* C8 *)

\* C8: every assignee in the collection that is not null is a non-empty
\* string starting with dev-.
AssigneeConvention ==
  \A i \in DOMAIN tasks :
    tasks[i].assignee # Null => AssigneeAccepted(tasks[i].assignee)

\* a created task has an assignee, and the last request tried to store a number
AssignedAfterRejectReached ==
  /\ req.op = "assign"
  /\ req.assignee = Num(123)
  /\ \E i \in DOMAIN tasks :
       /\ tasks[i].id = req.id
       /\ tasks[i].createdAt # Undefined
       /\ tasks[i].assignee # Null

(* C10 *)

\* C10: no step removes a task or changes a task's id, title, status or
\* createdAt; a successful assign changes nothing but the assignee and
\* updatedAt of one task with the given id, which it returns.
AssignMutatesOneRecord ==
  [][/\ Len(tasks') >= Len(tasks)
     /\ \A i \in DOMAIN tasks :
          /\ tasks'[i].id = tasks[i].id
          /\ tasks'[i].title = tasks[i].title
          /\ tasks'[i].status = tasks[i].status
          /\ tasks'[i].createdAt = tasks[i].createdAt
     /\ (req'.op = "assign" /\ res'.code = 200) =>
          /\ Len(tasks') = Len(tasks)
          /\ \E i \in DOMAIN tasks :
               /\ tasks[i].id = req'.id
               /\ tasks'[i].assignee = req'.assignee
               /\ res'.body = <<tasks'[i]>>
               /\ \A j \in DOMAIN tasks : j # i => tasks'[j] = tasks[j]]_vars

\* an assign succeeded on an id two tasks share, and changed only the first
AssignAmongDuplicatesReached ==
  /\ req.op = "assign"
  /\ res.code = 200
  /\ \E i, j \in DOMAIN tasks :
       /\ i < j
       /\ tasks[i].id = req.id
       /\ tasks[j].id = req.id
       /\ tasks[i].assignee = Str("dev-9")
       /\ tasks[j].assignee = Null

====
